---- MODULE Spec2Model ----
(***************************************************************************)
(* A model of class Base of include/SDL2_base.hpp: the lifetime of one     *)
(* rendering context (SDL subsystem, window, renderer), the texture store  *)
(* `textures`, create_texture, the drawing calls, and the handles callers  *)
(* keep.  Calls into SDL that acquire or release a resource are recorded   *)
(* in `log` in the order the code makes them.                              *)
(***************************************************************************)
EXTENDS Integers, Sequences, FiniteSets, TLC

\* The bmp paths callers pass.
Paths == {"a.bmp", "b.bmp"}

\* At most this many SDL_LoadBMP calls are made in a run.
MaxLoads == 3

\* The longest path list handed to the bulk operation.
MaxKeys == 2

\* At most this many move constructions of the Base happen in a run.
MaxMoves == 1

VARIABLES
    phase,      \* "none": no Base yet; "alive"; "failed": constructor threw; "destroyed"
    shells,     \* moved-from Base objects not yet destroyed (each still has its Sdl member)
    moves,      \* move constructions made so far
    textures,   \* Base::textures: the vector of texture handles (ids), in push order
    created,    \* created[id]: the bmp path texture id was created from
    held,       \* texture ids a caller holds a shared_ptr to
    log,        \* the SDL acquire and release calls made so far, in order
    last        \* the operation that ran last: its inputs, its outcome, the store before it

vars == <<phase, shells, moves, textures, created, held, log, last>>

\* One SDL call: its name, the resource it returned or was handed (0: none or the
\* only one of its kind), and whether it succeeded.
Call(c, id, ok) == [call |-> c, id |-> id, ok |-> ok]

Range(s) == {s[i] : i \in DOMAIN s}

\* Positions of the calls named c in l.
Calls(l, c) == {i \in DOMAIN l : l[i].call = c}

\* Positions of the successful calls named c in l.
OkCalls(l, c) == {i \in Calls(l, c) : l[i].ok}

\* The SDL_Surface the next successful SDL_LoadBMP returns.
NextSurface(l) == Cardinality(OkCalls(l, "SDL_LoadBMP")) + 1

\* The record of an operation, before its fields are filled in.
NoLast ==
    [op |-> "none", path |-> "", keys |-> <<>>, present |-> FALSE,
     bmpOK |-> TRUE, texOK |-> TRUE, threw |-> FALSE, handle |-> 0,
     map |-> <<>>, fwd |-> <<>>, lib |-> "none", dstf |-> FALSE,
     pre |-> <<>>, ncreated |-> 0]

\* The part of the state create_texture works on.
Store == [textures |-> textures, created |-> created, held |-> held, log |-> log]

----------------------------------------------------------------------------
\* Construction and destruction

\* Sdl::Sdl with the check of SDL_Init's result lost: it never throws.
Sdl_ctor_NoThrow(l, initOK) ==
    [log |-> Append(l, Call("SDL_Init", 0, initOK)), threw |-> FALSE]

\* Sdl::Sdl: SDL_Init, and a throw when it reports failure.
Sdl_ctor(l, initOK) ==
    [log |-> Append(l, Call("SDL_Init", 0, initOK)), threw |-> ~initOK]

\* Sdl::~Sdl: SDL_Quit, always.
Sdl_dtor(l) == Append(l, Call("SDL_Quit", 0, TRUE))

\* The deleter of win: SDL_DestroyWindow on a non-null window.
Window_deleter(l) == Append(l, Call("SDL_DestroyWindow", 0, TRUE))

\* The deleter of ren: SDL_DestroyRenderer on a non-null renderer.
Renderer_deleter(l) == Append(l, Call("SDL_DestroyRenderer", 0, TRUE))

\* Base::Base: the members are initialised in declaration order (sdl, win, ren);
\* a throwing initialiser destroys the members already constructed, in reverse.
Base_ctor(l, initOK, winOK, renOK) ==
    LET s == Sdl_ctor(l, initOK) IN
    IF s.threw THEN [log |-> s.log, threw |-> TRUE]
    ELSE LET w == Append(s.log, Call("SDL_CreateWindow", 0, winOK)) IN
         IF ~winOK THEN [log |-> Sdl_dtor(w), threw |-> TRUE]
         ELSE LET r == Append(w, Call("SDL_CreateRenderer", 0, renOK)) IN
              IF ~renOK THEN [log |-> Sdl_dtor(Window_deleter(r)), threw |-> TRUE]
              ELSE [log |-> r, threw |-> FALSE]

\* The vector's destructor releases its handles in order; a texture whose last
\* holder that was is destroyed (the shared_ptr's deleter calls SDL_DestroyTexture).
RECURSIVE ReleaseTextures(_, _, _)
ReleaseTextures(l, ts, h) ==
    IF ts = <<>> THEN l
    ELSE ReleaseTextures(
             IF Head(ts) \in h THEN l
             ELSE Append(l, Call("SDL_DestroyTexture", Head(ts), TRUE)),
             Tail(ts), h)

\* ~Base with textures declared before ren: the renderer is destroyed first.
Base_dtor_RendererFirst(l, ts, h) ==
    Sdl_dtor(Window_deleter(ReleaseTextures(Renderer_deleter(l), ts, h)))

\* ~Base of the object that owns the resources: the members are destroyed in
\* reverse declaration order: textures, ren, win, sdl.
Base_dtor(l, ts, h) ==
    Sdl_dtor(Window_deleter(Renderer_deleter(ReleaseTextures(l, ts, h))))

\* ~Base of a moved-from object: textures is empty, win and ren are null (a
\* unique_ptr does not call its deleter on null), and ~Sdl still runs.
Base_dtor_moved_from(l) == Sdl_dtor(l)

----------------------------------------------------------------------------
\* Textures

\* create_texture with the handle pushed before the texture is checked: a
\* failed SDL_CreateTextureFromSurface leaves an entry behind.
create_texture_RegistersFirst(s, path_to_bmp, bmpOK, texOK) ==
    IF ~bmpOK
    THEN [st |-> [s EXCEPT !.log = Append(@, Call("SDL_LoadBMP", 0, FALSE))],
          threw |-> TRUE, tex |-> 0]
    ELSE LET sur == NextSurface(s.log)
             t == Len(s.created) + 1
         IN  [st |-> [textures |-> Append(s.textures, t),
                      created |-> Append(s.created, path_to_bmp),
                      held |-> IF texOK THEN s.held \cup {t} ELSE s.held,
                      log |-> Append(s.log, Call("SDL_LoadBMP", sur, TRUE)) \o
                         <<Call("SDL_CreateTextureFromSurface", t, texOK),
                           Call("SDL_FreeSurface", sur, TRUE)>>],
              threw |-> ~texOK, tex |-> IF texOK THEN t ELSE 0]

\* create_texture with the push_back lost: the texture is returned and not stored.
create_texture_NoPush(s, path_to_bmp, bmpOK, texOK) ==
    IF ~bmpOK
    THEN [st |-> [s EXCEPT !.log = Append(@, Call("SDL_LoadBMP", 0, FALSE))],
          threw |-> TRUE, tex |-> 0]
    ELSE LET sur == NextSurface(s.log)
             l1 == Append(s.log, Call("SDL_LoadBMP", sur, TRUE))
         IN  IF ~texOK
             THEN [st |-> [s EXCEPT !.log = l1 \o
                              <<Call("SDL_CreateTextureFromSurface", 0, FALSE),
                                Call("SDL_FreeSurface", sur, TRUE)>>],
                   threw |-> TRUE, tex |-> 0]
             ELSE LET t == Len(s.created) + 1 IN
                  [st |-> [textures |-> s.textures,
                           created |-> Append(s.created, path_to_bmp),
                           held |-> s.held \cup {t},
                           log |-> l1 \o
                              <<Call("SDL_CreateTextureFromSurface", t, TRUE),
                                Call("SDL_FreeSurface", sur, TRUE)>>],
                   threw |-> FALSE, tex |-> t]

\* Base::create_texture on store s: load the bmp into a surface, create the
\* texture from it, push the handle, return it; the surface is freed on the way
\* out.  bmpOK and texOK say whether SDL_LoadBMP and SDL_CreateTextureFromSurface
\* succeed.
create_texture(s, path_to_bmp, bmpOK, texOK) ==
    IF ~bmpOK
    THEN [st |-> [s EXCEPT !.log = Append(@, Call("SDL_LoadBMP", 0, FALSE))],
          threw |-> TRUE, tex |-> 0]
    ELSE LET sur == NextSurface(s.log)
             l1 == Append(s.log, Call("SDL_LoadBMP", sur, TRUE))
         IN  IF ~texOK
             THEN [st |-> [s EXCEPT !.log = l1 \o
                              <<Call("SDL_CreateTextureFromSurface", 0, FALSE),
                                Call("SDL_FreeSurface", sur, TRUE)>>],
                   threw |-> TRUE, tex |-> 0]
             ELSE LET t == Len(s.created) + 1 IN
                  [st |-> [textures |-> Append(s.textures, t),
                           created |-> Append(s.created, path_to_bmp),
                           held |-> s.held \cup {t},
                           log |-> l1 \o
                              <<Call("SDL_CreateTextureFromSurface", t, TRUE),
                                Call("SDL_FreeSurface", sur, TRUE)>>],
                   threw |-> FALSE, tex |-> t]

\* Whether store s holds a texture created from path.
is_texture_loaded(s, path) ==
    \E i \in DOMAIN s.textures : s.created[s.textures[i]] = path

\* The bulk operation: create_texture for each path in order, collecting the
\* handles by path, stopping at the first one that throws.  outs[i] says how the
\* two SDL calls of the i-th load turn out.
RECURSIVE get_textures_map(_, _, _, _)
get_textures_map(s, paths, outs, acc) ==
    IF paths = <<>> THEN [st |-> s, threw |-> FALSE, map |-> acc]
    ELSE LET r == create_texture(s, Head(paths), Head(outs).bmp, Head(outs).tex) IN
         IF r.threw THEN [st |-> r.st, threw |-> TRUE, map |-> acc]
         ELSE get_textures_map(
                  r.st, Tail(paths), Tail(outs),
                  [k \in DOMAIN acc \cup {Head(paths)} |->
                      IF k = Head(paths) THEN r.tex ELSE acc[k]])

----------------------------------------------------------------------------
\* Drawing

\* Base::set_draw_color: one SDL_SetRenderDrawColor, a throw when it fails.
set_draw_color(libOK) ==
    [fwd |-> <<"SDL_SetRenderDrawColor">>, threw |-> ~libOK]

\* clear with the result of SDL_RenderClear ignored.
clear_Swallow(libOK) == [fwd |-> <<"SDL_RenderClear">>, threw |-> FALSE]

\* Base::clear: one SDL_RenderClear, a throw when it fails.
clear(libOK) == [fwd |-> <<"SDL_RenderClear">>, threw |-> ~libOK]

\* Base::present: one SDL_RenderPresent, which returns nothing.
present == [fwd |-> <<"SDL_RenderPresent">>, threw |-> FALSE]

\* Base::draw_texture_internal: SDL_RenderCopyExF when a float destination rect
\* was given, SDL_RenderCopyEx otherwise; a throw when the call fails.
draw_texture_internal(hasSrc, hasDst, hasDstF, libOK) ==
    IF hasDstF
    THEN [fwd |-> <<"SDL_RenderCopyExF">>, threw |-> ~libOK]
    ELSE [fwd |-> <<"SDL_RenderCopyEx">>, threw |-> ~libOK]

\* Base::draw_texture with optional integer rects.
draw_texture(hasSrc, hasDst, libOK) ==
    draw_texture_internal(hasSrc, hasDst, FALSE, libOK)

\* Base::draw_texture with a source rect and a float destination rect.
draw_texture_f(libOK) == draw_texture_internal(TRUE, FALSE, TRUE, libOK)

----------------------------------------------------------------------------
\* The state machine

Init ==
    /\ phase = "none"
    /\ shells = 0
    /\ moves = 0
    /\ textures = <<>>
    /\ created = <<>>
    /\ held = {}
    /\ log = <<>>
    /\ last = NoLast

\* Base base(init_flags, title, w, h, win_flags, ren_flags)
Construct ==
    /\ phase = "none"
    /\ \E initOK \in BOOLEAN, winOK \in BOOLEAN, renOK \in BOOLEAN :
          LET r == Base_ctor(log, initOK, winOK, renOK) IN
          /\ log' = r.log
          /\ phase' = IF r.threw THEN "failed" ELSE "alive"
          /\ last' = [NoLast EXCEPT !.op = "Base", !.threw = r.threw]
    /\ UNCHANGED <<shells, moves, textures, created, held>>

\* base.create_texture(path)
CreateTexture ==
    /\ phase = "alive"
    /\ Cardinality(Calls(log, "SDL_LoadBMP")) < MaxLoads
    /\ \E path \in Paths, bmpOK \in BOOLEAN, texOK \in BOOLEAN :
          LET r == create_texture(Store, path, bmpOK, texOK) IN
          /\ textures' = r.st.textures
          /\ created' = r.st.created
          /\ held' = r.st.held
          /\ log' = r.st.log
          /\ last' = [NoLast EXCEPT !.op = "create_texture", !.path = path,
                         !.present = is_texture_loaded(Store, path),
                         !.bmpOK = bmpOK, !.texOK = texOK, !.threw = r.threw,
                         !.handle = r.tex, !.pre = textures,
                         !.ncreated = Len(created)]
    /\ UNCHANGED <<phase, shells, moves>>

\* base.get_textures_map(paths)
GetTexturesMap ==
    /\ phase = "alive"
    /\ \E n \in 1..MaxKeys :
          /\ Cardinality(Calls(log, "SDL_LoadBMP")) + n <= MaxLoads
          /\ \E paths \in [1..n -> Paths],
                outs \in [1..n -> [bmp : BOOLEAN, tex : BOOLEAN]] :
                LET r == get_textures_map(Store, paths, outs, <<>>) IN
                /\ textures' = r.st.textures
                /\ created' = r.st.created
                /\ held' = r.st.held
                /\ log' = r.st.log
                /\ last' = [NoLast EXCEPT !.op = "get_textures_map",
                               !.keys = paths, !.threw = r.threw, !.map = r.map,
                               !.pre = textures, !.ncreated = Len(created)]
    /\ UNCHANGED <<phase, shells, moves>>

\* base.is_texture_loaded(path)
IsTextureLoaded ==
    /\ phase = "alive"
    /\ \E path \in Paths :
          last' = [NoLast EXCEPT !.op = "is_texture_loaded", !.path = path,
                      !.present = is_texture_loaded(Store, path),
                      !.pre = textures, !.ncreated = Len(created)]
    /\ UNCHANGED <<phase, shells, moves, textures, created, held, log>>

Draw(op, r, lib, dstf) ==
    /\ last' = [NoLast EXCEPT !.op = op, !.fwd = r.fwd, !.threw = r.threw,
                   !.lib = lib, !.dstf = dstf]
    /\ UNCHANGED <<phase, shells, moves, textures, created, held, log>>

Outcome(libOK) == IF libOK THEN "ok" ELSE "fail"

\* base.set_draw_color(col)
SetDrawColor ==
    /\ phase = "alive"
    /\ \E libOK \in BOOLEAN :
          Draw("set_draw_color", set_draw_color(libOK), Outcome(libOK), FALSE)

\* base.clear()
Clear ==
    /\ phase = "alive"
    /\ \E libOK \in BOOLEAN : Draw("clear", clear(libOK), Outcome(libOK), FALSE)

\* base.present()
Present ==
    /\ phase = "alive"
    /\ Draw("present", present, "void", FALSE)

\* base.draw_texture(tex, srcrect, dstrect, angle, flip), integer rects
DrawTexture ==
    /\ phase = "alive"
    /\ \E hasSrc \in BOOLEAN, hasDst \in BOOLEAN, libOK \in BOOLEAN :
          Draw("draw_texture", draw_texture(hasSrc, hasDst, libOK),
               Outcome(libOK), FALSE)

\* base.draw_texture(tex, srcrect, dstrect, angle, flip), float destination rect
DrawTextureF ==
    /\ phase = "alive"
    /\ \E libOK \in BOOLEAN :
          Draw("draw_texture", draw_texture_f(libOK), Outcome(libOK), TRUE)

\* A caller drops a handle it holds; the texture is destroyed when the store
\* does not hold it either.
ReleaseHandle ==
    /\ \E t \in held :
          /\ held' = held \ {t}
          /\ log' = IF t \in Range(textures) THEN log
                    ELSE Append(log, Call("SDL_DestroyTexture", t, TRUE))
    /\ last' = [NoLast EXCEPT !.op = "release"]
    /\ UNCHANGED <<phase, shells, moves, textures, created>>

\* Base other(std::move(base)): the implicit move constructor.  Sdl is copied
\* (no SDL_Init), win, ren and textures move to the new object, which is the
\* owner from here on; the old object stays behind as a shell.
MoveConstruct ==
    /\ phase = "alive"
    /\ moves < MaxMoves
    /\ moves' = moves + 1
    /\ shells' = shells + 1
    /\ last' = [NoLast EXCEPT !.op = "move"]
    /\ UNCHANGED <<phase, textures, created, held, log>>

\* The owning Base is destroyed.
Destroy ==
    /\ phase = "alive"
    /\ log' = Base_dtor(log, textures, held)
    /\ textures' = <<>>
    /\ phase' = "destroyed"
    /\ last' = [NoLast EXCEPT !.op = "~Base", !.pre = textures]
    /\ UNCHANGED <<shells, moves, created, held>>

\* A moved-from Base is destroyed.
DestroyMovedFrom ==
    /\ shells > 0
    /\ shells' = shells - 1
    /\ log' = Base_dtor_moved_from(log)
    /\ last' = [NoLast EXCEPT !.op = "~Base(moved-from)"]
    /\ UNCHANGED <<phase, moves, textures, created, held>>

\* The operations of the header.
NextCode ==
    \/ Construct
    \/ CreateTexture
    \/ SetDrawColor
    \/ Clear
    \/ Present
    \/ DrawTexture
    \/ DrawTextureF
    \/ ReleaseHandle
    \/ MoveConstruct
    \/ Destroy
    \/ DestroyMovedFrom

SpecCode == Init /\ [][NextCode]_vars

\* The operations of the header and the two path-keyed operations the test calls.
Next ==
    \/ Construct
    \/ CreateTexture
    \/ GetTexturesMap
    \/ IsTextureLoaded
    \/ SetDrawColor
    \/ Clear
    \/ Present
    \/ DrawTexture
    \/ DrawTextureF
    \/ ReleaseHandle
    \/ MoveConstruct
    \/ Destroy
    \/ DestroyMovedFrom

Spec == Init /\ [][Next]_vars

----------------------------------------------------------------------------
\* What the log says

\* Whether a call named c failed.
Failed(c) == \E i \in Calls(log, c) : ~log[i].ok

\* The textures SDL_DestroyTexture was called on.
DestroyedTextures == {log[i].id : i \in Calls(log, "SDL_DestroyTexture")}

RendererDestroyed == Calls(log, "SDL_DestroyRenderer") # {}

\* Every call named a comes before every call named b.
Before(a, b) == \A i \in Calls(log, a), j \in Calls(log, b) : i < j

\* The paths with a texture in the store as it was before the last operation.
LoadedBefore == {created[last.pre[i]] : i \in DOMAIN last.pre}

DrawOps == {"set_draw_color", "clear", "present", "draw_texture"}

----------------------------------------------------------------------------
\* The claims

\* C1: a successful load of a path that already has a texture in the store
\* returns a handle the store already held and constructs no new texture.
C1_FetchReturnsStoredHandle ==
    (last.op = "create_texture" /\ last.present /\ ~last.threw) =>
        /\ last.handle \in Range(last.pre)
        /\ Len(created) = last.ncreated

\* C2: the store never holds two texture handles created from the same path.
C2_OneHandlePerPath ==
    \A i, j \in DOMAIN textures :
        i # j => created[textures[i]] # created[textures[j]]

\* C3: when SDL_LoadBMP or SDL_CreateTextureFromSurface fails, create_texture
\* throws, returns no handle, and leaves the store as it was: no entry added, no
\* texture created, and the failed path loaded exactly when it was before.
C3_FailedLoadLeavesStore ==
    (last.op = "create_texture" /\ (~last.bmpOK \/ ~last.texOK)) =>
        /\ last.threw
        /\ last.handle = 0
        /\ textures = last.pre
        /\ Len(created) = last.ncreated
        /\ is_texture_loaded(Store, last.path) = last.present

\* C3 witness: texture creation failed for a path not loaded before, with
\* another texture already in the store.
C3_Witness ==
    /\ last.op = "create_texture"
    /\ last.bmpOK /\ ~last.texOK
    /\ ~last.present
    /\ last.threw
    /\ textures # <<>>

\* C4: while the Base is alive a path is loaded exactly when some create_texture
\* of it has succeeded (false before the first success, true ever after), and
\* asking whether it is loaded changes nothing and answers just that.
C4_LoadedIffCreated ==
    /\ phase = "alive" =>
          \A k \in Paths : is_texture_loaded(Store, k) <=> k \in Range(created)
    /\ last.op = "is_texture_loaded" =>
          /\ textures = last.pre
          /\ Len(created) = last.ncreated
          /\ last.present = (last.path \in Range(created))

\* C4 witness: the query answered true for a loaded path while the other path
\* has never been loaded.
C4_Witness ==
    /\ phase = "alive"
    /\ last.op = "is_texture_loaded"
    /\ last.present
    /\ \E k \in Paths : k \notin Range(created)

\* C5: a successful bulk load constructs one texture for each distinct path
\* that was not loaded before, none for the others, and returns one entry for
\* each distinct path.
C5_BulkLoadsEachPathOnce ==
    (last.op = "get_textures_map" /\ ~last.threw) =>
        /\ Len(created) - last.ncreated
              = Cardinality(Range(last.keys) \ LoadedBefore)
        /\ DOMAIN last.map = Range(last.keys)

\* C6 as claimed: every texture not yet destroyed has a renderer not yet
\* destroyed, and every load comes after the renderer was created.
C6_NoTextureOutlivesRenderer ==
    /\ \A t \in 1..Len(created) :
          t \notin DestroyedTextures => ~RendererDestroyed
    /\ Before("SDL_CreateRenderer", "SDL_LoadBMP")

\* C6 as amended: a texture outlives the renderer only while a caller holds
\* its handle; the destructor destroys every stored texture no caller holds
\* before it destroys the renderer; every load comes after the renderer was
\* created.
C6_OnlyHeldTexturesOutliveRenderer ==
    /\ \A t \in 1..Len(created) :
          (RendererDestroyed /\ t \notin DestroyedTextures) => t \in held
    /\ last.op = "~Base" =>
          \A t \in Range(last.pre) \ held :
              \E i \in Calls(log, "SDL_DestroyTexture") :
                  /\ log[i].id = t
                  /\ \A j \in Calls(log, "SDL_DestroyRenderer") : i < j
    /\ Before("SDL_CreateRenderer", "SDL_LoadBMP")
    /\ Before("SDL_CreateRenderer", "SDL_CreateTextureFromSurface")

\* C6 witness: the Base was just destroyed while a caller holds one of its
\* textures and another of its textures had no outside holder.
C6_Witness ==
    /\ last.op = "~Base"
    /\ Range(last.pre) \cap held # {}
    /\ Range(last.pre) \ held # {}

\* C7: acquisition goes SDL_Init, SDL_CreateWindow, SDL_CreateRenderer; once
\* the Base is destroyed the store is empty, every texture no caller holds is
\* destroyed, and renderer, window and subsystem were released in that order,
\* each exactly once.
C7_ReverseOrderTeardown ==
    /\ Before("SDL_Init", "SDL_CreateWindow")
    /\ Before("SDL_CreateWindow", "SDL_CreateRenderer")
    /\ phase = "destroyed" =>
          /\ textures = <<>>
          /\ \A t \in 1..Len(created) : t \notin held => t \in DestroyedTextures
          /\ Cardinality(Calls(log, "SDL_DestroyRenderer")) = 1
          /\ Cardinality(Calls(log, "SDL_DestroyWindow")) = 1
          /\ Cardinality(Calls(log, "SDL_Quit")) = 1
          /\ Before("SDL_DestroyRenderer", "SDL_DestroyWindow")
          /\ Before("SDL_DestroyWindow", "SDL_Quit")

\* C8: a failed acquisition step makes the constructor throw and no later step
\* is attempted: no window and no renderer after a failed SDL_Init, no renderer
\* after a failed SDL_CreateWindow.
C8_ConstructionFailsFast ==
    /\ Failed("SDL_Init") =>
          /\ phase = "failed"
          /\ Calls(log, "SDL_CreateWindow") = {}
          /\ Calls(log, "SDL_CreateRenderer") = {}
    /\ Failed("SDL_CreateWindow") =>
          /\ phase = "failed"
          /\ Calls(log, "SDL_CreateRenderer") = {}
    /\ Failed("SDL_CreateRenderer") => phase = "failed"
    /\ last.op = "Base" => (last.threw <=> phase = "failed")

\* C8 witness: the constructor threw because SDL_Init failed.
C8_Witness ==
    /\ last.op = "Base"
    /\ last.threw
    /\ Failed("SDL_Init")

C10_ReleasedExactlyOnce ==
    /\ Cardinality(Calls(log, "SDL_Quit"))
          <= Cardinality(OkCalls(log, "SDL_Init"))
    /\ Cardinality(Calls(log, "SDL_DestroyWindow"))
          <= Cardinality(OkCalls(log, "SDL_CreateWindow"))
    /\ Cardinality(Calls(log, "SDL_DestroyRenderer"))
          <= Cardinality(OkCalls(log, "SDL_CreateRenderer"))
    /\ \A i \in OkCalls(log, "SDL_LoadBMP") :
          Cardinality({j \in Calls(log, "SDL_FreeSurface") :
                          log[j].id = log[i].id /\ j > i}) = 1
    /\ Cardinality(Calls(log, "SDL_FreeSurface"))
          = Cardinality(OkCalls(log, "SDL_LoadBMP"))
    /\ \A t \in 1..Len(created) :
          Cardinality({j \in Calls(log, "SDL_DestroyTexture") : log[j].id = t}) <= 1
    /\ DestroyedTextures \subseteq 1..Len(created)
    /\ phase = "failed" =>
          /\ Cardinality(Calls(log, "SDL_Quit"))
                = Cardinality(OkCalls(log, "SDL_Init"))
          /\ Cardinality(Calls(log, "SDL_DestroyWindow"))
                = Cardinality(OkCalls(log, "SDL_CreateWindow"))
          /\ Before("SDL_DestroyWindow", "SDL_Quit")
    /\ (phase = "destroyed" /\ shells = 0) =>
          /\ Cardinality(Calls(log, "SDL_Quit")) = 1
          /\ Cardinality(Calls(log, "SDL_DestroyWindow")) = 1
          /\ Cardinality(Calls(log, "SDL_DestroyRenderer")) = 1

====
